---------------------------- MODULE Spec2Model ----------------------------
(***************************************************************************)
(* A model of motility_analysis/profile.py: the Profile class (filtering   *)
(* of a track collection at construction, summary lists, teleport          *)
(* analysis) and the static cross-profile MSD routines.                    *)
(*                                                                         *)
(* Python values are encoded as follows.                                   *)
(*   - None, NaN and False are three reserved integers outside every       *)
(*     numeric domain used (TLC compares only like with like).             *)
(*   - A float that need not be an integer (a mean, 0.25 * t, 0.30) is a   *)
(*     reduced fraction <<n, d>> with d > 0; float('inf') is <<1, 0>> and  *)
(*     an omitted max_dt (None) is <<0, 0>>.                               *)
(*   - A Track or Position object is a record of the attributes that       *)
(*     profile.py reads from it.  Tracks are referred to by their index    *)
(*     in the list that holds them wherever Python relies on identity.     *)
(***************************************************************************)
EXTENDS Integers, Sequences, FiniteSets

VARIABLES
    pc,        \* "new": before Profile.__init__; "built": a Profile exists;
               \* "init_raised": __init__ propagated an exception;
               \* "static": only the static routines are exercised
    tracks_in, \* the track list the caller passes to Profile(...)
    args,      \* the keyword arguments of the Profile(...) call
    self,      \* the Profile object's attributes
    err,       \* exception raised by the last operation, or "none"
    out,       \* what the last operation printed, as structured records
    op,        \* the last operation and its arguments
    profiles,  \* the list of Profiles handed to the static routines
    ret        \* what the last static routine returned

vars == <<pc, tracks_in, args, self, err, out, op, profiles, ret>>

(***************************************************************************)
(* Encoded Python values                                                   *)
(***************************************************************************)
None == -101
NaN == -102
False == -103

\* Python truthiness of a number, None or False ("if trim_displacement:").
Truthy(v) == v \notin {None, False, 0}

\* math.isnan / np.isnan
isnan(v) == v = NaN

\* len(seq) > 0 folded helpers
RECURSIVE SumSeq(_)
SumSeq(s) == IF s = <<>> THEN 0 ELSE Head(s) + SumSeq(Tail(s))

RECURSIVE Flatten(_)
Flatten(ss) == IF ss = <<>> THEN <<>> ELSE Head(ss) \o Flatten(Tail(ss))

Range(s) == {s[i] : i \in DOMAIN s}

\* All sequences over S of length 0..n
SeqUpTo(S, n) == UNION {[1..k -> S] : k \in 0..n}

(***************************************************************************)
(* Track and Position objects (attributes read by profile.py)              *)
(***************************************************************************)
Position(x, y, z, time_s) == [x |-> x, y |-> y, z |-> z, time_s |-> time_s]

\* The empty delta-t -> [squared displacement] dictionary.
EmptyDict == [k \in {} |-> <<>>]

\* A Track as the attributes profile.py reads from it.  The attributes no
\* filter reads (the interquartile ranges, broken, length, meander) take their
\* values from the others, which keeps the input universe small.
Track(displacement, positions, duration_min, arrest_coefficient, median_speed, median_turn, median_roll, dtsq) ==
    [displacement |-> displacement,
     positions |-> positions,
     duration_min |-> duration_min,
     arrest_coefficient |-> arrest_coefficient,
     median_speed |-> median_speed,
     irq_speed |-> median_speed,
     median_turn |-> median_turn,
     irq_turn |-> median_turn,
     median_roll |-> median_roll,
     irq_roll |-> median_roll,
     broken |-> (displacement = 1),
     length |-> displacement + 1,
     meander |-> displacement,
     deltaT_displacements_sq |-> dtsq]

(***************************************************************************)
(* Profile.__init__: the filter pipeline, one operator per step            *)
(***************************************************************************)
\* lines 64-66: "if trim_displacement:" keeps t.displacement >= trim_displacement
TrimDisplacement(ts, a) ==
    IF Truthy(a.trim_displacement)
    THEN SelectSeq(ts, LAMBDA t : t.displacement >= a.trim_displacement)
    ELSE ts

\* A slip: the length of the track list in place of the track's positions.
TrimObservations_ListLength(ts, a) ==
    IF Truthy(a.trim_observations)
    THEN SelectSeq(ts, LAMBDA t : Len(ts) >= a.trim_observations)
    ELSE ts

\* lines 69-71: "if trim_observations:" keeps len(t.positions) >= trim_observations
TrimObservations(ts, a) ==
    IF Truthy(a.trim_observations)
    THEN SelectSeq(ts, LAMBDA t : Len(t.positions) >= a.trim_observations)
    ELSE ts

\* lines 74-76: "if trim_duration:" keeps t.duration_min >= trim_duration
TrimDuration(ts, a) ==
    IF Truthy(a.trim_duration)
    THEN SelectSeq(ts, LAMBDA t : t.duration_min >= a.trim_duration)
    ELSE ts

\* A slip: an inclusive comparison.
TrimArrestCoefficient_Inclusive(ts, a) ==
    IF Truthy(a.trim_arrest_coefficient)
    THEN SelectSeq(ts, LAMBDA t : t.arrest_coefficient <= a.trim_arrest_coefficient)
    ELSE ts

\* lines 79-81: "if trim_arrest_coefficient:" keeps
\* t.arrest_coefficient < trim_arrest_coefficient
TrimArrestCoefficient(ts, a) ==
    IF Truthy(a.trim_arrest_coefficient)
    THEN SelectSeq(ts, LAMBDA t : t.arrest_coefficient < a.trim_arrest_coefficient)
    ELSE ts

\* line 86: drop tracks whose median speed is NaN
DropUndefinedMedianSpeed(ts) == SelectSeq(ts, LAMBDA t : ~isnan(t.median_speed))

\* A slip: the median-turn filter left out.
DropUndefinedMedianTurn_Omitted(ts) == ts

\* line 88: drop tracks whose median turn is NaN
DropUndefinedMedianTurn(ts) == SelectSeq(ts, LAMBDA t : ~isnan(t.median_turn))

\* A slip: the number of tracks left reported as the number excluded.
ExclusionReport_Remaining(step, active, before, after) ==
    IF Truthy(active)
    THEN << [msg |-> step, excluded |-> Len(after), total |-> Len(before)] >>
    ELSE << >>

\* A print of "Excluding x tracks, out of y ..." (lines 67, 72, 77, 82), when
\* the step's trim is active.
ExclusionReport(step, active, before, after) ==
    IF Truthy(active)
    THEN << [msg |-> step, excluded |-> Len(before) - Len(after), total |-> Len(before)] >>
    ELSE << >>

\* lines 90-96: the broken-track report; percent is a fraction, -1.0 when no
\* track is retained.
BrokenReport(ts) ==
    LET broken == SelectSeq(ts, LAMBDA t : t.broken)
    IN  [msg |-> "broken", excluded |-> Len(broken), total |-> Len(ts),
         percent |-> IF Len(ts) # 0 THEN <<100 * Len(broken), Len(ts)>> ELSE <<-1, 1>>]

\* [t.f for t in ts], f the name of the attribute
MapSeq(ts, f) == [i \in 1..Len(ts) |-> ts[i][f]]

\* [t.f() for t in ts if not math.isnan(t.f())]   (lines 102-107)
DefinedOnly(ts, f) == LET vs == MapSeq(ts, f) IN SelectSeq(vs, LAMBDA v : ~isnan(v))

\* The attributes of a Profile on which __init__ has not run.
NoProfile ==
    [tracks |-> <<>>, duration |-> <<>>, length |-> <<>>, displacement |-> <<>>,
     meander |-> <<>>, medSpd |-> <<>>, irqSpd |-> <<>>, medTurn |-> <<>>,
     irqTurn |-> <<>>, medRoll |-> <<>>, irqRoll |-> <<>>,
     teleport_tracks |-> {}, teleport_ends |-> <<>>, teleport_starts |-> <<>>]

\* lines 62-113: the Profile's attributes just before "if analyse_teleports:".
ProfileInit(ts, a) ==
    LET t1 == TrimDisplacement(ts, a)
        t2 == TrimObservations(t1, a)
        t3 == TrimDuration(t2, a)
        t4 == TrimArrestCoefficient(t3, a)
        t5 == DropUndefinedMedianSpeed(t4)
        t6 == DropUndefinedMedianTurn(t5)
    IN  [self |->
            [tracks |-> t6,
             duration |-> MapSeq(t6, "duration_min"),
             length |-> MapSeq(t6, "length"),
             displacement |-> MapSeq(t6, "displacement"),
             meander |-> MapSeq(t6, "meander"),
             medSpd |-> DefinedOnly(t6, "median_speed"),
             irqSpd |-> DefinedOnly(t6, "irq_speed"),
             medTurn |-> DefinedOnly(t6, "median_turn"),
             irqTurn |-> DefinedOnly(t6, "irq_turn"),
             medRoll |-> DefinedOnly(t6, "median_roll"),
             irqRoll |-> DefinedOnly(t6, "irq_roll"),
             teleport_tracks |-> {}, teleport_ends |-> <<>>, teleport_starts |-> <<>>],
         out |->
            ExclusionReport("displacement", a.trim_displacement, ts, t1)
            \o ExclusionReport("observations", a.trim_observations, t1, t2)
            \o ExclusionReport("duration", a.trim_duration, t2, t3)
            \o ExclusionReport("arrest_coefficient", a.trim_arrest_coefficient, t3, t4)
            \o << BrokenReport(t6) >>]

(***************************************************************************)
(* Profile.analyse_teleportations (lines 201-283)                          *)
(***************************************************************************)
\* margin=0.1, as the fraction MarginNum / MarginDen.  Box bounds are kept
\* multiplied by MarginDen so that they stay integers.
MarginNum == 1
MarginDen == 10

Min(S) == CHOOSE m \in S : \A v \in S : m <= v
Max(S) == CHOOSE m \in S : \A v \in S : m >= v

\* lines 222-224: [p.x for t in self.tracks for p in t.positions if p.x], as the
\* set of values (only min and max are taken of it).  "if p.x" is truthiness.
CollectCoords(ts, coord) ==
    LET all == UNION {{ts[i].positions[j][coord] : j \in DOMAIN ts[i].positions}
                      : i \in DOMAIN ts}
    IN  {v \in all : Truthy(v)}

\* lines 226-236 for one axis: low = min + margin * range, high = max - margin * range,
\* both times MarginDen.
AxisBounds(vs) ==
    LET range == Max(vs) - Min(vs)
    IN  [low |-> MarginDen * Min(vs) + MarginNum * range,
         high |-> MarginDen * Max(vs) - MarginNum * range]

\* lines 212-219: inside_imaging_volume.  Comparing None with a float raises
\* TypeError; the "or" short-circuits, and the axes are tested x, y, z.
InsideAxis(v, b) ==
    IF v = None THEN "TypeError"
    ELSE IF MarginDen * v < b.low \/ MarginDen * v > b.high THEN "False"
    ELSE "True"

inside_imaging_volume(p, box) ==
    LET ix == InsideAxis(p.x, box.x)
        iy == InsideAxis(p.y, box.y)
        iz == InsideAxis(p.z, box.z)
    IN  IF ix # "True" THEN ix
        ELSE IF iy # "True" THEN iy
        ELSE iz

\* Profile.TeleportPoint.__init__ (lines 42-48); track is the index of the
\* track in self.tracks.
TeleportPoint(x, y, z, time, track, start) ==
    [x |-> x, y |-> y, z |-> z, time |-> time, track |-> track, start |-> start]

\* line 253: p_start.time_s != 0.0 and inside_imaging_volume(p_start...)
StartTest(t, box) ==
    IF t.positions[1].time_s # 0
    THEN inside_imaging_volume(t.positions[1], box)
    ELSE "False"

\* line 257: p_end.time_s < end_time and inside_imaging_volume(p_end...)
EndTest(t, box, end_time) ==
    IF t.positions[Len(t.positions)].time_s < end_time
    THEN inside_imaging_volume(t.positions[Len(t.positions)], box)
    ELSE "False"

\* lines 254-256: the start-type point of track i
StartPoint(t, i) ==
    LET p_start == t.positions[1]
        p_end == t.positions[Len(t.positions)]
    IN  TeleportPoint(p_start.x, p_start.y, p_end.z, p_start.time_s, i, TRUE)

\* lines 258-260: the end-type point of track i
EndPoint(t, i) ==
    LET p_end == t.positions[Len(t.positions)]
    IN  TeleportPoint(p_end.x, p_end.y, p_end.z, p_end.time_s, i, FALSE)

\* lines 247-260: the loop over self.tracks from index i on, appending to the
\* two lists; a TypeError leaves the loop with what was appended so far.
\* "done" counts the tracks whose both tests were evaluated.
RECURSIVE TeleportLoop(_, _, _, _, _, _)
TeleportLoop(ts, i, box, end_time, starts, ends) ==
    IF i > Len(ts)
    THEN [starts |-> starts, ends |-> ends, err |-> "none", done |-> Len(ts)]
    ELSE LET st == StartTest(ts[i], box)
             starts1 == IF st = "True" THEN Append(starts, StartPoint(ts[i], i)) ELSE starts
             en == EndTest(ts[i], box, end_time)
             ends1 == IF en = "True" THEN Append(ends, EndPoint(ts[i], i)) ELSE ends
         IN  IF st = "TypeError"
             THEN [starts |-> starts, ends |-> ends, err |-> "TypeError", done |-> i - 1]
             ELSE IF en = "TypeError"
             THEN [starts |-> starts1, ends |-> ends, err |-> "TypeError", done |-> i - 1]
             ELSE TeleportLoop(ts, i + 1, box, end_time, starts1, ends1)

\* lines 271-283: the report over all_points sorted by time.  The sort key
\* reads point.time_s, an attribute TeleportPoint does not have (it stores
\* "time"), and list.sort calls the key on every element: AttributeError as
\* soon as there is one point.  With no point nothing is printed.
TeleportReport(all_points) ==
    IF all_points = <<>>
    THEN [err |-> "none", lines |-> <<>>]
    ELSE [err |-> "AttributeError", lines |-> <<>>]

\* The whole method on a Profile s: the Profile afterwards, the exception
\* raised ("none" when it returns), what was printed, and how many tracks the
\* loop classified.
analyse_teleportations(s) ==
    LET xs == CollectCoords(s.tracks, "x")
        ys == CollectCoords(s.tracks, "y")
        zs == CollectCoords(s.tracks, "z")
    IN  IF xs = {} \/ ys = {} \/ zs = {}
        THEN \* max() of an empty list, lines 226-228
             [self |-> s, err |-> "ValueError", out |-> <<>>, done |-> 0]
        ELSE
        LET box == [x |-> AxisBounds(xs), y |-> AxisBounds(ys), z |-> AxisBounds(zs)]
            end_time == Max({s.tracks[i].positions[Len(s.tracks[i].positions)].time_s
                             : i \in DOMAIN s.tracks})
            loop == TeleportLoop(s.tracks, 1, box, end_time,
                                 s.teleport_starts, s.teleport_ends)
            tele_points == loop.starts \o loop.ends
            s1 == [s EXCEPT !.teleport_starts = loop.starts,
                            !.teleport_ends = loop.ends]
            s2 == [s1 EXCEPT !.teleport_tracks = {tele_points[k].track : k \in DOMAIN tele_points}]
            printed == << [msg |-> "boundaries", box |-> box],
                          [msg |-> "end_time", end_time |-> end_time] >>
            summary == [msg |-> "teleport_tracks",
                        count |-> Cardinality(s2.teleport_tracks),
                        total |-> Len(s.tracks)]
            report == TeleportReport(tele_points)
        IN  IF \E i \in DOMAIN s.tracks : s.tracks[i].positions = <<>>
            THEN \* t.positions[-1] of a track without positions, line 243
                 [self |-> s, err |-> "IndexError",
                  out |-> << [msg |-> "boundaries", box |-> box] >>, done |-> 0]
            ELSE IF loop.err # "none"
            THEN [self |-> s1, err |-> loop.err, out |-> printed, done |-> loop.done]
            ELSE [self |-> s2, err |-> report.err,
                  out |-> printed \o <<summary>> \o report.lines, done |-> loop.done]

(***************************************************************************)
(* Profile construction as an action                                       *)
(***************************************************************************)
NoArgs ==
    [trim_displacement |-> False, trim_observations |-> None, trim_duration |-> None,
     trim_arrest_coefficient |-> None, analyse_teleports |-> FALSE]

\* The last operation: its name, how many times analyse_teleportations has run
\* on the Profile, and how many tracks its loop classified the last time.
NoOp == [name |-> "none", calls |-> 0, done |-> 0]
NoReturn == [kind |-> "none"]

\* Profile(tracks_in, **a): lines 62-115.  With analyse_teleports the method
\* ends in analyse_teleportations(), whose exception leaves __init__ too.
Construct(a) ==
    /\ pc = "new"
    /\ LET built == ProfileInit(tracks_in, a)
           tele == analyse_teleportations(built.self)
       IN  IF a.analyse_teleports
           THEN /\ self' = tele.self
                /\ err' = tele.err
                /\ out' = built.out \o tele.out
                /\ pc' = IF tele.err = "none" THEN "built" ELSE "init_raised"
                /\ op' = [name |-> "__init__", calls |-> 1, done |-> tele.done]
           ELSE /\ self' = built.self
                /\ err' = "none"
                /\ out' = built.out
                /\ pc' = "built"
                /\ op' = [name |-> "__init__", calls |-> 0, done |-> 0]
    /\ args' = a
    /\ UNCHANGED <<tracks_in, profiles, ret>>

(***************************************************************************)
(* Spec: construction of a Profile over tracks that differ in what the     *)
(* filters read                                                            *)
(***************************************************************************)
MaxTracks == 2

DefaultPositions(n) == [i \in 1..n |-> Position(1, 1, 1, i - 1)]

\* The conditions of __init__ a track can fall short of.  A track of the
\* input universe is named by the set of conditions it fails against the
\* threshold 2: displacement 1 instead of 2, one position instead of two,
\* duration 1 instead of 2, arrest coefficient 2 instead of 1, a NaN median
\* speed, turn or roll.  Tracks failing up to two conditions are drawn.
Conditions ==
    {"displacement", "observations", "duration", "arrest_coefficient",
     "median_speed", "median_turn", "median_roll"}

TrackFailing(F) ==
    Track(IF "displacement" \in F THEN 1 ELSE 2,
          DefaultPositions(IF "observations" \in F THEN 1 ELSE 2),
          IF "duration" \in F THEN 1 ELSE 2,
          IF "arrest_coefficient" \in F THEN 2 ELSE 1,
          IF "median_speed" \in F THEN NaN ELSE 5,
          IF "median_turn" \in F THEN NaN ELSE 7,
          IF "median_roll" \in F THEN NaN ELSE 9,
          EmptyDict)

FilterTracks == {TrackFailing(F) : F \in {G \in SUBSET Conditions : Cardinality(G) <= 2}}

TrimArgs ==
    [trim_displacement : {False, 2}, trim_observations : {None, 2},
     trim_duration : {None, 2}, trim_arrest_coefficient : {None, 0, 2},
     analyse_teleports : {FALSE}]

Init ==
    /\ pc = "new"
    /\ tracks_in \in SeqUpTo(FilterTracks, MaxTracks)
    /\ args = NoArgs
    /\ self = NoProfile
    /\ err = "none"
    /\ out = <<>>
    /\ op = NoOp
    /\ profiles = <<>>
    /\ ret = NoReturn

Next == \E a \in TrimArgs : Construct(a)

Spec == Init /\ [][Next]_vars

(***************************************************************************)
(* SpecTele: teleport analysis, at construction and deferred, over tracks  *)
(* that differ in where and when they start and end                        *)
(***************************************************************************)
MaxCalls == 2

\* The deferred call p.analyse_teleportations() on a built Profile.
AnalyseTeleportations ==
    /\ pc = "built"
    /\ op.calls < MaxCalls
    /\ LET tele == analyse_teleportations(self)
       IN  /\ self' = tele.self
           /\ err' = tele.err
           /\ out' = tele.out
           /\ op' = [name |-> "analyse_teleportations", calls |-> op.calls + 1,
                     done |-> tele.done]
    /\ UNCHANGED <<pc, tracks_in, args, profiles, ret>>

\* Where a track may start: a corner of the volume, its centre, a position
\* with a zero coordinate, a position whose x is missing.
StartPlaces ==
    {<<1, 1, 1>>, <<2, 2, 2>>, <<0, 2, 2>>, <<None, 2, 2>>}
\* Where it may end: either corner, or the centre.
EndPlaces ==
    {<<3, 3, 3>>, <<1, 1, 1>>, <<2, 2, 2>>}
StartTimes == {0, 1}
EndTimes == {2, 3}

\* A track of three observations: it is seen twice where it starts, then
\* where it ends.  The attributes the filters read pass every filter.
TeleTrack(a, ta, b, tb) ==
    Track(2, << Position(a[1], a[2], a[3], ta), Position(a[1], a[2], a[3], ta + 1),
                Position(b[1], b[2], b[3], tb) >>,
          2, 1, 5, 7, 9, EmptyDict)

TeleTracks ==
    {TeleTrack(a, ta, b, tb) : a \in StartPlaces, ta \in StartTimes,
                               b \in EndPlaces, tb \in EndTimes}

InitTele ==
    /\ pc = "new"
    /\ tracks_in \in SeqUpTo(TeleTracks, MaxTracks)
    /\ args = NoArgs
    /\ self = NoProfile
    /\ err = "none"
    /\ out = <<>>
    /\ op = NoOp
    /\ profiles = <<>>
    /\ ret = NoReturn

NextTele ==
    \/ \E at \in BOOLEAN : Construct([NoArgs EXCEPT !.analyse_teleports = at])
    \/ AnalyseTeleportations

SpecTele == InitTele /\ [][NextTele]_vars

(***************************************************************************)
(* Profile.calculate_msd and Profile.calculate_msd_vs_max_dt               *)
(***************************************************************************)
RECURSIVE GCD(_, _)
GCD(a, b) == IF b = 0 THEN a ELSE GCD(b, a % b)

\* The fraction n / d (d > 0) in lowest terms.
Frac(n, d) == LET g == GCD(IF n < 0 THEN -n ELSE n, d)
              IN  IF g = 0 THEN <<0, 1>> ELSE <<n \div g, d \div g>>

\* float('inf') and an omitted max_dt
Inf == <<1, 0>>
MaxDtNone == <<0, 0>>

\* np.mean of a non-empty list of integers
Mean(vs) == Frac(SumSeq(vs), Len(vs))

\* 0.25 * biggest_time (line 333)
Quarter(t) == Frac(t, 4)

\* t <= q for an integer t and a fraction or infinity q
LeqFrac(t, q) == IF q = Inf THEN TRUE ELSE t * q[2] <= q[1]

\* sorted(keys): the ascending sequence of a finite set of integers
RECURSIVE Sorted(_)
Sorted(S) == IF S = {} THEN <<>> ELSE <<Min(S)>> \o Sorted(S \ {Min(S)})

\* [t for p in profiles for t in p.tracks]
AllTracks(ps) == Flatten(MapSeq(ps, "tracks"))

\* lines 304-313, method 'allT': the dictionary delta-t -> pooled squared
\* displacements; each key's list is extended track by track.
CollateSquaredDisplacements(ps) ==
    LET ts == AllTracks(ps)
        keys == UNION {DOMAIN ts[i].deltaT_displacements_sq : i \in DOMAIN ts}
    IN  [dt \in keys |->
            Flatten([i \in DOMAIN ts |->
                        IF dt \in DOMAIN ts[i].deltaT_displacements_sq
                        THEN ts[i].deltaT_displacements_sq[dt]
                        ELSE <<>>])]

\* lines 324-327: the list of (delta-t, mean) tuples in ascending delta-t
MsdOfProfiles(ps) ==
    LET d == CollateSquaredDisplacements(ps)
        ks == Sorted(DOMAIN d)
    IN  [i \in 1..Len(ks) |-> <<ks[i], Mean(d[ks[i]])>>]

\* A slip: a strict comparison with the cutoff.
CutoffFilter_Strict(msd, max_dt) ==
    SelectSeq(msd, LAMBDA tup : tup[1] * max_dt[2] < max_dt[1])

\* line 336: [tup for tup in msd if tup[0] <= max_dt]
CutoffFilter(msd, max_dt) == SelectSeq(msd, LAMBDA tup : LeqFrac(tup[1], max_dt))

\* A slip: a zero MSD let through to the logarithm.
CanRegress_NonNegative(msd) ==
    /\ Len(msd) > 0
    /\ \A i \in DOMAIN msd : msd[i][1] > 0
    /\ \A i \in DOMAIN msd : msd[i][2][1] >= 0

\* line 344: len(times) > 0 and min(times) > 0. and min(msds) > 0.
CanRegress(msd) ==
    /\ Len(msd) > 0
    /\ \A i \in DOMAIN msd : msd[i][1] > 0
    /\ \A i \in DOMAIN msd : msd[i][2][1] > 0

\* A float the model does not compute: an output of scipy.stats.linregress on
\* the logs of the (delta-t, MSD) list, or a point of the fitted curve, named
\* by what it is computed from.  A constant is the same record around its
\* value.
Fitted(what, msd, at) == [sym |-> what, on |-> msd, q |-> at]
Const(q) == [sym |-> "const", on |-> <<>>, q |-> q]

\* line 359-360: the fixed result
Sentinel ==
    [kind |-> "sentinel",
     msd |-> << <<0, <<0, 1>>>> >>,
     slope |-> Const(<<0, 1>>), intercept |-> Const(<<3, 10>>),
     r |-> Const(<<0, 1>>), p |-> Const(<<0, 1>>), stderr |-> Const(<<0, 1>>),
     msd_time_cutoff |-> <<100, 1>>,
     linearPlot |-> <<>>, linearTimes |-> <<>>]

\* lines 346-358: the regression result on the list msd with cutoff max_dt
Regression(msd, max_dt) ==
    [kind |-> "regression",
     msd |-> msd,
     slope |-> Fitted("slope", msd, <<0, 1>>),
     intercept |-> Fitted("intercept", msd, <<0, 1>>),
     r |-> Fitted("r", msd, <<0, 1>>),
     p |-> Fitted("p", msd, <<0, 1>>),
     stderr |-> Fitted("stderr", msd, <<0, 1>>),
     msd_time_cutoff |-> max_dt,
     linearPlot |-> [i \in 1..Len(msd) |-> Fitted("linear", msd, <<msd[i][1], 1>>)],
     linearTimes |-> [i \in 1..Len(msd) |-> msd[i][1]]]

\* msd[-1][0] on an empty list (line 332)
IndexError == [kind |-> "IndexError"]

\* lines 341-360
FitOrSentinel(msd, max_dt) ==
    IF CanRegress(msd) THEN Regression(msd, max_dt) ELSE Sentinel

\* calculate_msd(profiles, msd, max_dt), method 'allT'.  "not msd" holds of
\* None and of the empty list alike: given = <<>> stands for both.
calculate_msd(ps, given, max_dt) ==
    LET msd == IF given = <<>> THEN MsdOfProfiles(ps) ELSE given
    IN  IF max_dt = MaxDtNone
        THEN IF msd = <<>>
             THEN IndexError
             ELSE FitOrSentinel(msd, Quarter(msd[Len(msd)][1]))
        ELSE IF max_dt # Inf
        THEN FitOrSentinel(CutoffFilter(msd, max_dt), max_dt)
        ELSE FitOrSentinel(msd, max_dt)

\* A slip: the first delta-t kept as a candidate cutoff.
calculate_msd_vs_max_dt_KeepsFirst(ps, upper_max_dt) ==
    LET msd_results == calculate_msd(ps, <<>>, Inf)
        within == SelectSeq(msd_results.msd, LAMBDA m : LeqFrac(m[1], upper_max_dt))
        dts == [i \in 1..Len(within) |-> within[i][1]]
    IN  [kind |-> "dts_slopes",
         dts |-> dts,
         slopes |-> [i \in 1..Len(dts) |-> calculate_msd(ps, <<>>, <<dts[i], 1>>).slope]]

\* calculate_msd_vs_max_dt(profiles, upper_max_dt), lines 370-381
calculate_msd_vs_max_dt(ps, upper_max_dt) ==
    LET msd_results == calculate_msd(ps, <<>>, Inf)
        within == SelectSeq(msd_results.msd, LAMBDA m : LeqFrac(m[1], upper_max_dt))
        all_dts == [i \in 1..Len(within) |-> within[i][1]]
        dts == IF all_dts = <<>> THEN <<>> ELSE Tail(all_dts)
    IN  [kind |-> "dts_slopes",
         dts |-> dts,
         slopes |-> [i \in 1..Len(dts) |-> calculate_msd(ps, <<>>, <<dts[i], 1>>).slope]]

(***************************************************************************)
(* SpecMsd: the static MSD routines over Profiles of constant-velocity     *)
(* tracks                                                                  *)
(***************************************************************************)
MaxObservations == 4
MaxCutoff == 3
Speeds == {0, 1, 2}

\* The delta-t -> [squared displacement] dictionary of a track observed n
\* times at unit intervals while moving in a straight line at speed v: one
\* value per pair of observations i < j, under the key j - i.
BallisticDict(n, v) == [k \in 1..(n - 1) |-> [j \in 1..(n - k) |-> (v * k) * (v * k)]]

BallisticTrack(n, v) ==
    Track(v * (n - 1), DefaultPositions(n), n - 1, 1, 5, 7, 9, BallisticDict(n, v))

\* A track observed once has no pair of observations, whatever its speed.
MsdTracks ==
    {BallisticTrack(1, 0)}
    \cup {BallisticTrack(n, v) : n \in 2..MaxObservations, v \in Speeds}

\* The Profile built from a track list with the default arguments.
ProfileOf(ts) == ProfileInit(ts, NoArgs).self

\* The ways of handing up to MaxTracks tracks to the routines: in one Profile
\* or split over two.
ProfileLists ==
    UNION {{<<ProfileOf(ts)>>}
           \cup {<<ProfileOf(SubSeq(ts, 1, c)), ProfileOf(SubSeq(ts, c + 1, Len(ts)))>>
                 : c \in 0..Len(ts)}
           : ts \in SeqUpTo(MsdTracks, MaxTracks)}

MaxDtChoices == {MaxDtNone, Inf} \cup {<<x, 1>> : x \in 0..MaxCutoff}
UpperChoices == {Inf} \cup {<<x, 1>> : x \in 0..MaxCutoff}

InitMsd ==
    /\ pc = "static"
    /\ profiles \in ProfileLists
    /\ tracks_in = <<>>
    /\ args = NoArgs
    /\ self = NoProfile
    /\ err = "none"
    /\ out = <<>>
    /\ op = NoOp
    /\ ret = NoReturn

ErrorOf(r) == IF r.kind = "IndexError" THEN "IndexError" ELSE "none"

\* The static routines keep no state between calls, so a behaviour is one call,
\* which a call reusing the returned 'msd' list may follow.

\* Profile.calculate_msd(profiles, max_dt=max_dt)
CalculateMsd(max_dt) ==
    /\ pc = "static"
    /\ op.name = "none"
    /\ LET r == calculate_msd(profiles, <<>>, max_dt)
       IN  ret' = r /\ err' = ErrorOf(r)
    /\ op' = [name |-> "calculate_msd", given |-> <<>>, max_dt |-> max_dt]
    /\ UNCHANGED <<pc, tracks_in, args, self, out, profiles>>

\* Profile.calculate_msd(profiles, msd=m, max_dt=max_dt), m being the 'msd'
\* list of the result just returned.
CalculateMsdGiven(max_dt) ==
    /\ pc = "static"
    /\ op.name = "calculate_msd"
    /\ op.given = <<>>
    /\ ret.kind \in {"regression", "sentinel"}
    /\ LET r == calculate_msd(profiles, ret.msd, max_dt)
       IN  ret' = r /\ err' = ErrorOf(r)
    /\ op' = [name |-> "calculate_msd", given |-> ret.msd, max_dt |-> max_dt]
    /\ UNCHANGED <<pc, tracks_in, args, self, out, profiles>>

\* Profile.calculate_msd_vs_max_dt(profiles, upper_max_dt)
CalculateMsdVsMaxDt(upper_max_dt) ==
    /\ pc = "static"
    /\ op.name = "none"
    /\ ret' = calculate_msd_vs_max_dt(profiles, upper_max_dt)
    /\ err' = "none"
    /\ op' = [name |-> "calculate_msd_vs_max_dt", given |-> <<>>, max_dt |-> upper_max_dt]
    /\ UNCHANGED <<pc, tracks_in, args, self, out, profiles>>

NextMsd ==
    \/ \E m \in MaxDtChoices : CalculateMsd(m)
    \/ \E m \in MaxDtChoices : CalculateMsdGiven(m)
    \/ \E u \in UpperChoices : CalculateMsdVsMaxDt(u)

SpecMsd == InitMsd /\ [][NextMsd]_vars

(***************************************************************************)
(* Claims about Profile construction (checked under Spec)                  *)
(***************************************************************************)
\* A threshold is active when __init__ acts on it: it is neither None nor
\* False nor zero.
Active(v) == v # None /\ v # False /\ v # 0

\* The conditions of claim C1 on one track, under the thresholds a.
SatisfiesAll(t, a) ==
    /\ Active(a.trim_displacement) => t.displacement >= a.trim_displacement
    /\ Active(a.trim_observations) => Len(t.positions) >= a.trim_observations
    /\ Active(a.trim_duration) => t.duration_min >= a.trim_duration
    /\ Active(a.trim_arrest_coefficient) => t.arrest_coefficient < a.trim_arrest_coefficient
    /\ t.median_speed # NaN
    /\ t.median_turn # NaN

\* The subsequence of ts at the indices in I, in order.
RECURSIVE SubSeqAt(_, _, _)
SubSeqAt(ts, I, i) ==
    IF i > Len(ts) THEN <<>>
    ELSE (IF i \in I THEN <<ts[i]>> ELSE <<>>) \o SubSeqAt(ts, I, i + 1)

\* C1: after construction the Profile's track list is exactly the input
\* tracks, in input order, that satisfy every active threshold (displacement,
\* observations and duration inclusive, arrest coefficient strict) and have a
\* defined median speed and median turn.
C1_RetainedIsExactlySatisfying ==
    pc = "built" =>
        self.tracks =
            SubSeqAt(tracks_in, {i \in DOMAIN tracks_in : SatisfiesAll(tracks_in[i], args)}, 1)

\* C1 witness: all four trims active, two different input tracks, the first at
\* the displacement threshold exactly and kept, the second at the arrest
\* threshold exactly and dropped.
C1_Witness ==
    /\ pc = "built"
    /\ Len(tracks_in) = 2
    /\ args.trim_displacement = 2 /\ args.trim_observations = 2
    /\ args.trim_duration = 2 /\ args.trim_arrest_coefficient = 2
    /\ tracks_in[1].displacement = 2 /\ Len(tracks_in[1].positions) = 2
    /\ tracks_in[1].duration_min = 2
    /\ tracks_in[2].arrest_coefficient = 2
    /\ self.tracks = <<tracks_in[1]>>

\* The four trims of __init__ applied in the order given by a sequence of
\* step names, followed by the two median filters.
TrimStep(name, ts, a) ==
    CASE name = "displacement" -> TrimDisplacement(ts, a)
      [] name = "observations" -> TrimObservations(ts, a)
      [] name = "duration" -> TrimDuration(ts, a)
      [] name = "arrest_coefficient" -> TrimArrestCoefficient(ts, a)

RECURSIVE TrimsInOrder(_, _, _)
TrimsInOrder(order, ts, a) ==
    IF order = <<>> THEN ts
    ELSE TrimsInOrder(Tail(order), TrimStep(Head(order), ts, a), a)

TrimNames == {"displacement", "observations", "duration", "arrest_coefficient"}
TrimOrders == {o \in [1..4 -> TrimNames] : Range(o) = TrimNames}

RetainedInOrder(order, ts, a) ==
    DropUndefinedMedianTurn(DropUndefinedMedianSpeed(TrimsInOrder(order, ts, a)))

\* The order in which __init__ applies the trims (lines 64-83).
InitOrder == <<"displacement", "observations", "duration", "arrest_coefficient">>

\* C2 as stated: when a Profile is about to be built, some track list and
\* thresholds exist for which applying the same trims in an order other than
\* the constructor's retains different tracks.
C2_OrderChangesResult ==
    pc = "new" =>
        \E ts \in SeqUpTo(FilterTracks, MaxTracks), a \in TrimArgs, o \in TrimOrders :
            RetainedInOrder(o, ts, a) # RetainedInOrder(InitOrder, ts, a)

\* C2 amended: whatever the order in which the active trims are applied, the
\* tracks retained are those the constructor retains.
C2_OrderIrrelevant ==
    pc = "built" =>
        \A o \in TrimOrders : RetainedInOrder(o, tracks_in, args) = self.tracks

\* C2 witness: the displacement trim and the arrest trim are both active,
\* each excludes a different one of the two input tracks, and none is retained.
C2_Witness ==
    /\ pc = "built"
    /\ Len(tracks_in) = 2
    /\ args.trim_displacement = 2 /\ args.trim_arrest_coefficient = 2
    /\ tracks_in[1].displacement = 1 /\ tracks_in[1].arrest_coefficient = 1
    /\ tracks_in[2].displacement = 2 /\ tracks_in[2].arrest_coefficient = 2
    /\ self.tracks = <<>>

SummaryLists(s) ==
    {s.duration, s.length, s.displacement, s.meander, s.medSpd, s.irqSpd,
     s.medTurn, s.irqTurn, s.medRoll, s.irqRoll}

\* C3: after construction every retained track has a defined median speed
\* and median turn, medSpd and medTurn have one entry per retained track, and
\* no summary list is longer than the track list.
C3_RetainedHaveMedians ==
    pc = "built" =>
        /\ \A i \in DOMAIN self.tracks :
              self.tracks[i].median_speed # NaN /\ self.tracks[i].median_turn # NaN
        /\ Len(self.medSpd) = Len(self.tracks)
        /\ Len(self.medTurn) = Len(self.tracks)
        /\ \A i \in DOMAIN self.tracks :
              self.medSpd[i] = self.tracks[i].median_speed
              /\ self.medTurn[i] = self.tracks[i].median_turn
        /\ \A l \in SummaryLists(self) : Len(l) <= Len(self.tracks)

\* C3 witness: a track without a median turn was given and dropped, one track
\* is retained, and its undefined median roll leaves medRoll shorter than the
\* track list.
C3_Witness ==
    /\ pc = "built"
    /\ \E i \in DOMAIN tracks_in : tracks_in[i].median_turn = NaN
    /\ Len(self.tracks) = 1
    /\ Len(self.medSpd) = 1 /\ Len(self.medTurn) = 1
    /\ Len(self.medRoll) = 0

(***************************************************************************)
(* Claims about the MSD routines (checked under SpecMsd)                   *)
(***************************************************************************)
\* The last operation was calculate_msd.
IsMsdCall == op.name = "calculate_msd"

\* max_dt was given and finite.
FiniteCutoff(m) == m # MaxDtNone /\ m # Inf

\* The list the call started from: the one passed in, or the one computed
\* from the profiles.
BaseList == IF op.given = <<>> THEN MsdOfProfiles(profiles) ELSE op.given

\* A list filtered by hand to delta-t <= x / d.
HandFilter(l, m) == SelectSeq(l, LAMBDA e : e[1] * m[2] <= m[1])

\* The list that survives the call's cutoff.
Survivors == IF FiniteCutoff(op.max_dt) THEN HandFilter(BaseList, op.max_dt) ELSE BaseList

PositivePair(e) == e[1] > 0 /\ e[2][1] > 0

\* C4 as stated: on a single-track input whose track has one observation,
\* calculate_msd with its default arguments returns the fixed sentinel and
\* does not raise.
C4_SentinelForSingleObservation ==
    (/\ IsMsdCall /\ op.given = <<>> /\ op.max_dt = MaxDtNone
     /\ Len(profiles) = 1 /\ Len(profiles[1].tracks) = 1
     /\ Len(profiles[1].tracks[1].positions) = 1) =>
        /\ err = "none"
        /\ ret.kind = "sentinel"
        /\ ret.slope = Const(<<0, 1>>) /\ ret.intercept = Const(<<3, 10>>)
        /\ ret.r = Const(<<0, 1>>) /\ ret.p = Const(<<0, 1>>)
        /\ ret.stderr = Const(<<0, 1>>)
        /\ ret.msd_time_cutoff = <<100, 1>>
        /\ ret.linearPlot = <<>> /\ ret.linearTimes = <<>>

\* C5 as stated: once the cutoff is applied, the regression result is
\* returned whenever some surviving pair has delta-t > 0 and MSD > 0, and the
\* sentinel exactly when none has.
C5_RegressionIfSomePairPositive ==
    (IsMsdCall /\ ret.kind # "IndexError") =>
        /\ ret.kind = "regression" <=> (\E i \in DOMAIN Survivors : PositivePair(Survivors[i]))
        /\ ret.kind = "sentinel" <=> ~(\E i \in DOMAIN Survivors : PositivePair(Survivors[i]))

\* C5 amended: the regression result is returned exactly when the list that
\* survives the cutoff is non-empty and every surviving pair has delta-t > 0
\* and MSD > 0; otherwise the sentinel is returned, except that with max_dt
\* unspecified and no pair at all the call raises IndexError.
C5_RegressionIffAllPairsPositive ==
    IsMsdCall =>
        LET fits == Survivors # <<>> /\ \A i \in DOMAIN Survivors : PositivePair(Survivors[i])
            raises == op.max_dt = MaxDtNone /\ BaseList = <<>>
        IN  /\ ret.kind = "regression" <=> fits
            /\ ret.kind = "IndexError" <=> raises
            /\ ret.kind = "sentinel" <=> (~fits /\ ~raises)

\* C5 witness: a pair with positive delta-t and MSD survives beside a pair
\* whose MSD is zero, and the sentinel is returned.
C5_Witness ==
    /\ IsMsdCall
    /\ \E i \in DOMAIN Survivors : PositivePair(Survivors[i])
    /\ \E i \in DOMAIN Survivors : Survivors[i][1] > 0 /\ Survivors[i][2][1] = 0
    /\ ret.kind = "sentinel"

\* C6 as stated: in a non-sentinel result every entry of 'msd' and of
\* 'linearTimes' has delta-t <= 'msd_time_cutoff', and with max_dt unspecified
\* that cutoff is a quarter of the largest delta-t.
C6_EntriesWithinCutoff ==
    (IsMsdCall /\ ret.kind = "regression") =>
        /\ \A i \in DOMAIN ret.msd : LeqFrac(ret.msd[i][1], ret.msd_time_cutoff)
        /\ \A i \in DOMAIN ret.linearTimes : LeqFrac(ret.linearTimes[i], ret.msd_time_cutoff)
        /\ op.max_dt = MaxDtNone =>
               ret.msd_time_cutoff = Frac(Max({BaseList[i][1] : i \in DOMAIN BaseList}), 4)

\* The 'msd' list of the call with max_dt = infinity on the same profiles.
InfiniteCutoffResult == calculate_msd(profiles, <<>>, Inf)

\* C7 as stated: for every finite X the list returned with max_dt = X, whether
\* computed from the profiles or from the infinite-cutoff list passed back in,
\* is the infinite-cutoff list filtered by hand to delta-t <= X.
C7_FilterCommutes ==
    (/\ IsMsdCall /\ FiniteCutoff(op.max_dt)
     /\ op.given \in {<<>>, InfiniteCutoffResult.msd}) =>
        ret.msd = HandFilter(InfiniteCutoffResult.msd, op.max_dt)

\* C7 amended: the same, provided neither the infinite-cutoff call nor the
\* call with max_dt = X returns the sentinel.
C7_FilterCommutesOffSentinel ==
    (/\ IsMsdCall /\ FiniteCutoff(op.max_dt)
     /\ op.given \in {<<>>, InfiniteCutoffResult.msd}
     /\ InfiniteCutoffResult.kind = "regression"
     /\ ret.kind = "regression") =>
        ret.msd = HandFilter(InfiniteCutoffResult.msd, op.max_dt)

\* C7 witness: the infinite-cutoff list was passed back in with a finite
\* max_dt that cuts it, and a regression result came back.
C7_Witness ==
    /\ IsMsdCall /\ FiniteCutoff(op.max_dt)
    /\ op.given # <<>> /\ op.given = InfiniteCutoffResult.msd
    /\ InfiniteCutoffResult.kind = "regression"
    /\ ret.kind = "regression"
    /\ Len(ret.msd) < Len(op.given)
    /\ Len(ret.msd) >= 2

\* The delta-t values observed in the profiles' tracks.
ObservedDts ==
    LET ts == AllTracks(profiles)
    IN  UNION {DOMAIN ts[i].deltaT_displacements_sq : i \in DOMAIN ts}

\* The observed delta-t values up to u in ascending order, the smallest left out.
CandidateCutoffs(u) ==
    LET l == Sorted({dt \in ObservedDts : LeqFrac(dt, u)})
    IN  IF l = <<>> THEN <<>> ELSE Tail(l)

ExpectedDtsSlopes(u) ==
    /\ Len(ret.dts) = Len(ret.slopes)
    /\ ret.dts = CandidateCutoffs(u)
    /\ \A i \in DOMAIN ret.dts :
           ret.slopes[i] = calculate_msd(profiles, <<>>, <<ret.dts[i], 1>>).slope

\* C8 as stated: the cutoffs returned are the observed delta-t values up to
\* upper_max_dt in ascending order without the smallest, and the i-th slope is
\* the one calculate_msd fits at the i-th cutoff.
C8_CutoffsAreObservedDts ==
    op.name = "calculate_msd_vs_max_dt" => ExpectedDtsSlopes(op.max_dt)

\* C8 amended: that holds when the infinite-cutoff call returns a regression
\* result (every observed delta-t is positive and has a positive MSD);
\* otherwise both sequences are empty.
C8_CutoffsAreObservedDtsOffSentinel ==
    op.name = "calculate_msd_vs_max_dt" =>
        IF InfiniteCutoffResult.kind = "regression"
        THEN ExpectedDtsSlopes(op.max_dt)
        ELSE ret.dts = <<>> /\ ret.slopes = <<>>

\* C8 witness: three delta-t values are observed, upper_max_dt leaves the
\* largest out, and one cutoff with its slope is returned.
C8_Witness ==
    /\ op.name = "calculate_msd_vs_max_dt"
    /\ op.max_dt = <<2, 1>>
    /\ ObservedDts = {1, 2, 3}
    /\ ret.dts = <<2>>
    /\ Len(ret.slopes) = 1
    /\ ret.slopes[1].sym = "slope"
    /\ Len(ret.slopes[1].on) = 2

(***************************************************************************)
(* Claims about teleport analysis (checked under SpecTele)                 *)
(***************************************************************************)
\* The box the last analysis printed (lines 238-241), if it got that far.
PrintedBoxes == {out[k].box : k \in {j \in DOMAIN out : out[j].msg = "boundaries"}}

\* A position lies inside a box: every coordinate is there and within the
\* bounds (which are kept times MarginDen).
InBox(p, box) ==
    /\ p.x # None /\ p.y # None /\ p.z # None
    /\ box.x.low <= MarginDen * p.x /\ MarginDen * p.x <= box.x.high
    /\ box.y.low <= MarginDen * p.y /\ MarginDen * p.y <= box.y.high
    /\ box.z.low <= MarginDen * p.z /\ MarginDen * p.z <= box.z.high

FirstPos(t) == t.positions[1]
LastPos(t) == t.positions[Len(t.positions)]

\* The maximum last-observation time over the retained tracks.
LatestEnd(ts) == Max({LastPos(ts[i]).time_s : i \in DOMAIN ts})

PointsOf(points, i) == {k \in DOMAIN points : points[k].track = i}

\* What claim C9 requires for a start-type and an end-type point.
ShouldStart(t, box) == FirstPos(t).time_s # 0 /\ InBox(FirstPos(t), box)
ShouldEnd(t, ts, box) == LastPos(t).time_s < LatestEnd(ts) /\ InBox(LastPos(t), box)

\* C9 as stated: after an analysis, every start-type point recorded belongs
\* to a track whose first position has a time other than 0 and lies inside
\* the shrunk box, and it carries that position's time, x and y and the last
\* position's z; every end-type point belongs to a track whose last position
\* is earlier than the latest end and inside the box; and every retained
\* track has a start-type (end-type) point per run exactly when that holds of
\* it.  A first or last position lacking a coordinate raises TypeError in
\* inside_imaging_volume (line 213) and ends the loop, so that the tracks
\* after it have no point although they qualify.
C9_TeleportPointsRecorded ==
    op.calls >= 1 =>
        \A box \in PrintedBoxes :
            /\ \A k \in DOMAIN self.teleport_starts :
                LET p == self.teleport_starts[k]
                    t == self.tracks[p.track]
                IN  /\ p.start
                    /\ ShouldStart(t, box)
                    /\ p.x = FirstPos(t).x /\ p.y = FirstPos(t).y
                    /\ p.z = LastPos(t).z /\ p.time = FirstPos(t).time_s
            /\ \A k \in DOMAIN self.teleport_ends :
                LET p == self.teleport_ends[k]
                    t == self.tracks[p.track]
                IN  /\ ~p.start
                    /\ ShouldEnd(t, self.tracks, box)
                    /\ p.x = LastPos(t).x /\ p.y = LastPos(t).y
                    /\ p.z = LastPos(t).z /\ p.time = LastPos(t).time_s
            /\ \A i \in DOMAIN self.tracks :
                /\ Cardinality(PointsOf(self.teleport_starts, i)) =
                       IF ShouldStart(self.tracks[i], box) THEN op.calls ELSE 0
                /\ Cardinality(PointsOf(self.teleport_ends, i)) =
                       IF ShouldEnd(self.tracks[i], self.tracks, box) THEN op.calls ELSE 0

\* The lines the report prints for the points (lines 273-283).
PointLines == SelectSeq(out, LAMBDA l : l.msg = "point")

\* C10 as stated: whenever the analysis has yielded at least one
\* TeleportPoint it returns without raising, and it has reported every point,
\* in ascending time order.  Runs that a missing coordinate cut short while
\* the tracks were still being classified are set aside.
C10_ReportRunsToCompletion ==
    (op.calls >= 1 /\ err # "TypeError"
     /\ self.teleport_starts \o self.teleport_ends # <<>>) =>
        /\ err = "none"
        /\ Len(PointLines) = Len(self.teleport_starts) + Len(self.teleport_ends)
        /\ \A k \in 1..(Len(PointLines) - 1) : PointLines[k].time <= PointLines[k + 1].time

\* The coordinates that are there (not None) on one axis, over every position
\* of every retained track; a coordinate of 0 is one of them.
DefinedCoords(ts, coord) ==
    UNION {{ts[i].positions[j][coord] : j \in DOMAIN ts[i].positions} : i \in DOMAIN ts}
        \ {None}

\* The profile lacks every coordinate on some axis (in particular, it has no
\* tracks).
LacksAnAxis(s) == \E coord \in {"x", "y", "z"} : DefinedCoords(s.tracks, coord) = {}

\* C11 as stated: teleport analysis on a Profile with no tracks, or whose
\* positions all lack a coordinate on some axis, fails with
\* InsufficientDataError and with no built-in exception.
C11_FailsWithInsufficientDataError ==
    (op.calls >= 1 /\ LacksAnAxis(self)) => err = "InsufficientDataError"

\* min + margin * range and max - margin * range over the defined coordinates
\* of one axis, both times MarginDen.
DefinedAxisBounds(ts, coord) ==
    LET vs == DefinedCoords(ts, coord)
        lo == CHOOSE v \in vs : \A w \in vs : v <= w
        hi == CHOOSE v \in vs : \A w \in vs : v >= w
    IN  [low |-> MarginDen * lo + MarginNum * (hi - lo),
         high |-> MarginDen * hi - MarginNum * (hi - lo)]

\* C17 as stated: the box the analysis uses has on each axis
\* low = min + margin * range and high = max - margin * range, the extremes
\* taken over every defined coordinate, a coordinate of exactly 0 included.
C17_BoxOverDefinedCoordinates ==
    op.calls >= 1 =>
        \A box \in PrintedBoxes :
            /\ box.x = DefinedAxisBounds(self.tracks, "x")
            /\ box.y = DefinedAxisBounds(self.tracks, "y")
            /\ box.z = DefinedAxisBounds(self.tracks, "z")

\* C18 as stated: after any number of analyses of one Profile the lists hold
\* at most one start-type and at most one end-type point per retained track.
C18_OnePointPerTrack ==
    op.calls >= 1 =>
        \A i \in DOMAIN self.tracks :
            /\ Cardinality(PointsOf(self.teleport_starts, i)) <= 1
            /\ Cardinality(PointsOf(self.teleport_ends, i)) <= 1

(***************************************************************************)
(* SpecReport: construction over tracks that lie on either side of the     *)
(* thresholds, for the exclusion reports of the four trims                 *)
(***************************************************************************)
\* A track with n positions; displacement, duration and arrest coefficient are
\* each 1 or 3, the medians are defined.
ReportTrack(n, d, du, ac) == Track(d, DefaultPositions(n), du, ac, 5, 7, 9, EmptyDict)

ReportTracks ==
    {ReportTrack(n, d, du, ac) : n \in {2, 5}, d \in {1, 3}, du \in {1, 3}, ac \in {1, 3}}

\* Every trim is either left at its default or given the threshold 3.
ReportArgs ==
    [trim_displacement : {False, 3}, trim_observations : {None, 3},
     trim_duration : {None, 3}, trim_arrest_coefficient : {None, 3},
     analyse_teleports : {FALSE}]

InitReport ==
    /\ pc = "new"
    /\ tracks_in \in SeqUpTo(ReportTracks, MaxTracks)
    /\ args = NoArgs
    /\ self = NoProfile
    /\ err = "none"
    /\ out = <<>>
    /\ op = NoOp
    /\ profiles = <<>>
    /\ ret = NoReturn

NextReport == \E a \in ReportArgs : Construct(a)

SpecReport == InitReport /\ [][NextReport]_vars

(***************************************************************************)
(* Claims about the exclusion reports (checked under SpecReport)           *)
(***************************************************************************)
\* Track t passes the trim of the given name under the thresholds a.
PassesTrim(name, t, a) ==
    CASE name = "displacement" ->
            Active(a.trim_displacement) => t.displacement >= a.trim_displacement
      [] name = "observations" ->
            Active(a.trim_observations) => Len(t.positions) >= a.trim_observations
      [] name = "duration" ->
            Active(a.trim_duration) => t.duration_min >= a.trim_duration
      [] name = "arrest_coefficient" ->
            Active(a.trim_arrest_coefficient) => t.arrest_coefficient < a.trim_arrest_coefficient

ThresholdOf(name, a) ==
    CASE name = "displacement" -> a.trim_displacement
      [] name = "observations" -> a.trim_observations
      [] name = "duration" -> a.trim_duration
      [] name = "arrest_coefficient" -> a.trim_arrest_coefficient

\* How many input tracks pass the first k trims of the constructor's order.
PassingFirst(k) ==
    Cardinality({i \in DOMAIN tracks_in :
                    \A j \in 1..k : PassesTrim(InitOrder[j], tracks_in[i], args)})

\* The lines printed for the trim of the given name.
ReportsOf(name) == SelectSeq(out, LAMBDA l : l.msg = name)

\* C14: each active trim prints one report, whose count is the number of
\* tracks entering the step minus the number leaving it and whose total is
\* the number entering it, i.e. those that passed the earlier trims; an
\* inactive trim prints none; and two tracks of 2 and 5 positions under
\* trim_observations = 3 alone leave the 5-position track, reported as 1
\* excluded out of 2.
C14_ExclusionReportCounts ==
    pc = "built" =>
        /\ \A k \in 1..4 :
              LET name == InitOrder[k]
                  reports == ReportsOf(name)
              IN  IF Active(ThresholdOf(name, args))
                  THEN /\ Len(reports) = 1
                       /\ reports[1].total = PassingFirst(k - 1)
                       /\ reports[1].excluded = PassingFirst(k - 1) - PassingFirst(k)
                  ELSE reports = <<>>
        /\ (/\ Len(tracks_in) = 2
            /\ {Len(tracks_in[1].positions), Len(tracks_in[2].positions)} = {2, 5}
            /\ args = [NoArgs EXCEPT !.trim_observations = 3]) =>
               /\ Len(self.tracks) = 1
               /\ Len(self.tracks[1].positions) = 5
               /\ ReportsOf("observations") = << [msg |-> "observations", excluded |-> 1, total |-> 2] >>

\* C14 witness: of two tracks, the one of 5 positions has already been
\* excluded by the displacement trim when the observations trim excludes the
\* one of 2 positions, reported as 1 out of 1.
C14_Witness ==
    /\ pc = "built"
    /\ Len(tracks_in) = 2
    /\ Len(tracks_in[1].positions) = 5 /\ Len(tracks_in[2].positions) = 2
    /\ Active(args.trim_displacement) /\ Active(args.trim_observations)
    /\ ReportsOf("displacement") = << [msg |-> "displacement", excluded |-> 1, total |-> 2] >>
    /\ ReportsOf("observations") = << [msg |-> "observations", excluded |-> 1, total |-> 1] >>
    /\ self.tracks = <<>>

(***************************************************************************)
(* analyse_cell_entries_imaging_volume (lines 117-130) and                 *)
(* check_for_duplicates (lines 175-199); what they print is kept as one    *)
(* record per non-blank line                                               *)
(***************************************************************************)
\* lines 122-130.  t.positions[0] of a track without positions raises
\* IndexError in the comprehension, before anything is printed.
analyse_cell_entries_imaging_volume(s) ==
    IF \E i \in DOMAIN s.tracks : s.tracks[i].positions = <<>>
    THEN [err |-> "IndexError", out |-> <<>>]
    ELSE LET starters == SelectSeq(s.tracks, LAMBDA t : t.positions[1].time_s = 0)
             num_starters == Len(starters)
             num_entries == Len(s.tracks) - num_starters
         IN  [err |-> "none",
              out |-> << [msg |-> "calculating cell entries"],
                         [msg |-> "resided at time 0", count |-> num_starters],
                         [msg |-> "entered thereafter", count |-> num_entries],
                         [msg |-> "in total", count |-> Len(s.tracks)] >>]

\* lines 189-191: equal on every axis, and the coordinate is not None
duplicate(i_pos, j_pos) ==
    /\ i_pos.x = j_pos.x /\ i_pos.x # None
    /\ i_pos.y = j_pos.y /\ i_pos.y # None
    /\ i_pos.z = j_pos.z /\ i_pos.z # None

\* lines 193-198: the six lines printed for one duplicate; i and j are the
\* 0-based indices Python prints.
DuplicateLines(i_pos, i, j) ==
    << [msg |-> "duplicate track position found"],
       [msg |-> "x", value |-> i_pos.x], [msg |-> "y", value |-> i_pos.y],
       [msg |-> "z", value |-> i_pos.z], [msg |-> "time", value |-> i_pos.time_s],
       [msg |-> "i, j", i |-> i - 1, j |-> j - 1] >>

\* lines 182-199: for each track i, each of its positions, each other track j
\* in ascending order, each of its positions.
check_for_duplicates(s) ==
    LET ts == s.tracks
        others(i) == [n \in 1..(Len(ts) - 1) |-> IF n < i THEN n ELSE n + 1]
        found ==
            Flatten([i \in 1..Len(ts) |->
                Flatten([a \in 1..Len(ts[i].positions) |->
                    Flatten([n \in 1..(Len(ts) - 1) |->
                        LET j == others(i)[n]
                        IN  Flatten([b \in 1..Len(ts[j].positions) |->
                                IF duplicate(ts[i].positions[a], ts[j].positions[b])
                                THEN DuplicateLines(ts[i].positions[a], i, j)
                                ELSE <<>>])])])])
    IN  [err |-> "none",
         out |-> << [msg |-> "CHECKING FOR DUPLICATE TRACK DATA"] >> \o found
                 \o << [msg |-> "FINISHED"] >>]

(***************************************************************************)
(* The collate_* methods (lines 132-173) and the static collations         *)
(* (lines 383-456)                                                         *)
(***************************************************************************)
\* An object with further attributes: those of extra beside those of r.
WithAttributes(r, extra) ==
    [f \in DOMAIN r \cup DOMAIN extra |-> IF f \in DOMAIN extra THEN extra[f] ELSE r[f]]

\* [p for t in self.tracks for p in t.positions]
AllPositions(s) == Flatten(MapSeq(s.tracks, "positions"))

\* lines 137-138: p.speed is not None and not math.isnan(p.speed) and
\* p.meets_arrest_coeff_threshold
collate_speeds(s) ==
    MapSeq(SelectSeq(AllPositions(s),
                     LAMBDA p : p.speed # None /\ ~isnan(p.speed)
                                /\ p.meets_arrest_coeff_threshold),
           "speed")

\* lines 146-147
collate_turns(s) ==
    MapSeq(SelectSeq(AllPositions(s),
                     LAMBDA p : p.turn # None /\ ~isnan(p.turn)
                                /\ p.meets_arrest_coeff_threshold),
           "turn")

\* lines 154-155: p.instant_fmi is not None and p.meets_arrest_coeff_threshold;
\* there is no isnan test here.
collate_instantaneous_fmi(s) ==
    MapSeq(SelectSeq(AllPositions(s),
                     LAMBDA p : p.instant_fmi # None /\ p.meets_arrest_coeff_threshold),
           "instant_fmi")

\* lines 160-161: no test of meets_arrest_coeff_threshold
collate_rolls(s) ==
    MapSeq(SelectSeq(AllPositions(s), LAMBDA p : p.roll # None /\ ~isnan(p.roll)), "roll")

\* line 165: [t.meander for t in self.tracks if t.meander]
collate_meanders(s) == SelectSeq(MapSeq(s.tracks, "meander"), Truthy)

\* line 169
collate_lengths(s) == SelectSeq(MapSeq(s.tracks, "length"), Truthy)

\* line 173
collate_displacements(s) == SelectSeq(MapSeq(s.tracks, "displacement"), Truthy)

\* The instance method of the given name on the Profile s.
CollateMethods ==
    {"collate_speeds", "collate_turns", "collate_instantaneous_fmi", "collate_rolls",
     "collate_meanders", "collate_lengths", "collate_displacements"}

CallCollate(name, s) ==
    CASE name = "collate_speeds" -> collate_speeds(s)
      [] name = "collate_turns" -> collate_turns(s)
      [] name = "collate_instantaneous_fmi" -> collate_instantaneous_fmi(s)
      [] name = "collate_rolls" -> collate_rolls(s)
      [] name = "collate_meanders" -> collate_meanders(s)
      [] name = "collate_lengths" -> collate_lengths(s)
      [] name = "collate_displacements" -> collate_displacements(s)

\* A slip: a track's value taken once per profile list rather than once per
\* occurrence, i.e. only from the first profile.
collate_displacement_autocorrelation_FirstProfile(ps) ==
    LET ts == IF ps = <<>> THEN <<>> ELSE ps[1].tracks
        keys == UNION {DOMAIN ts[i].displacement_autocorrelation : i \in DOMAIN ts}
    IN  [deltaT \in keys |->
            Flatten([i \in DOMAIN ts |->
                        IF deltaT \in DOMAIN ts[i].displacement_autocorrelation
                        THEN << ts[i].displacement_autocorrelation[deltaT] >>
                        ELSE <<>>])]

\* lines 399-407: dac[deltaT].append(t.displacement_autocorrelation[deltaT]),
\* profile by profile and track by track
collate_displacement_autocorrelation(ps) ==
    LET ts == AllTracks(ps)
        keys == UNION {DOMAIN ts[i].displacement_autocorrelation : i \in DOMAIN ts}
    IN  [deltaT \in keys |->
            Flatten([i \in DOMAIN ts |->
                        IF deltaT \in DOMAIN ts[i].displacement_autocorrelation
                        THEN << ts[i].displacement_autocorrelation[deltaT] >>
                        ELSE <<>>])]

\* lines 420-427: disps[delta_t].extend(series_retriever(t)[delta_t]); the
\* retriever is given as the name of the series it reads from the track.
_collate_deltaT_displacements_helper(ps, series_retriever) ==
    LET ts == AllTracks(ps)
        keys == UNION {DOMAIN ts[i][series_retriever] : i \in DOMAIN ts}
    IN  [delta_t \in keys |->
            Flatten([i \in DOMAIN ts |->
                        IF delta_t \in DOMAIN ts[i][series_retriever]
                        THEN ts[i][series_retriever][delta_t]
                        ELSE <<>>])]

\* lines 430-456
collate_deltaT_displacements(ps) ==
    _collate_deltaT_displacements_helper(ps, "deltaT_displacements")
collate_deltaT_displacements_X(ps) ==
    _collate_deltaT_displacements_helper(ps, "deltaT_displacements_X")
collate_deltaT_displacements_Y(ps) ==
    _collate_deltaT_displacements_helper(ps, "deltaT_displacements_Y")
collate_deltaT_displacements_Z(ps) ==
    _collate_deltaT_displacements_helper(ps, "deltaT_displacements_Z")

(***************************************************************************)
(* SpecCollate: the collate_* methods and the autocorrelation collation on *)
(* a Profile built with the default arguments                              *)
(***************************************************************************)
\* The k-th position of a track, with the per-position readings
\* v = <<speed, turn, instant_fmi, roll, meets_arrest_coeff_threshold>>.
CollatePosition(k, v) ==
    WithAttributes(Position(1, 1, 1, k - 1),
                   [speed |-> v[1], turn |-> v[2], instant_fmi |-> v[3], roll |-> v[4],
                    meets_arrest_coeff_threshold |-> v[5]])

\* Readings: all defined; all defined on a blebbing position; missing;
\* NaN speed and fmi; all zero.
Moving == <<4, 7, 6, 9, TRUE>>
Blebbing == <<4, 7, 6, 9, FALSE>>
Missing == <<None, NaN, None, None, TRUE>>
Undefined == <<NaN, 7, NaN, NaN, TRUE>>
Still == <<0, 0, 0, 0, TRUE>>

ReadingLists ==
    {<<Moving>>, <<Blebbing>>, <<Missing>>, <<Undefined>>, <<Still>>,
     <<Moving, Blebbing>>, <<Blebbing, Still>>, <<Undefined, Moving>>}

\* A track with the further attributes the collations read.  The four
\* delta-t series are built from one dictionary: the net series and the X
\* series are that dictionary, the Y series is empty, the Z series is it too.
CollateTrack(readings, meander, length, displacement, median_speed, dac, series) ==
    WithAttributes(
        Track(displacement, [k \in DOMAIN readings |-> CollatePosition(k, readings[k])],
              2, 1, median_speed, 7, 9, series),
        [meander |-> meander, length |-> length,
         displacement_autocorrelation |-> dac,
         deltaT_displacements |-> series,
         deltaT_displacements_X |-> series,
         deltaT_displacements_Y |-> EmptyDict,
         deltaT_displacements_Z |-> series])

\* Per-track <<meander, length, displacement>>: defined and nonzero; missing
\* for a broken track; zero; NaN.
TrackValues ==
    {<<2, 3, 2>>, <<None, None, 2>>, <<0, 3, 0>>, <<NaN, 3, 2>>, <<2, 0, None>>, <<2, NaN, NaN>>}

\* Autocorrelation maps delta-t -> value.
Autocorrelations == {EmptyDict, [dt \in {1} |-> 5], [dt \in {1, 2} |-> 5 + dt], [dt \in {2} |-> 8]}

CollateTracks ==
    {CollateTrack(r, 2, 3, 2, 5, [dt \in {1} |-> 5], EmptyDict) : r \in ReadingLists}
    \cup {CollateTrack(<<Moving>>, v[1], v[2], v[3], 5, EmptyDict, EmptyDict) : v \in TrackValues}
    \cup {CollateTrack(<<Moving>>, 2, 3, 2, 5, dac, EmptyDict) : dac \in Autocorrelations}
    \cup {CollateTrack(<<Moving>>, 2, 3, 2, NaN, [dt \in {1} |-> 5], EmptyDict)}

InitCollate ==
    /\ pc = "new"
    /\ tracks_in \in SeqUpTo(CollateTracks, MaxTracks)
    /\ args = NoArgs
    /\ self = NoProfile
    /\ err = "none"
    /\ out = <<>>
    /\ op = NoOp
    /\ profiles = <<>>
    /\ ret = NoReturn

\* A slip: a collation that narrows self.tracks to the tracks it reads from,
\* as the constructor's trims do.
Collate_FiltersInPlace(name) ==
    /\ pc = "built"
    /\ ret' = [kind |-> "list", values |-> CallCollate(name, self)]
    /\ self' = [self EXCEPT !.tracks = SelectSeq(self.tracks, LAMBDA t : Truthy(t.meander))]
    /\ err' = "none"
    /\ op' = [name |-> name, calls |-> op.calls, done |-> op.done]
    /\ UNCHANGED <<pc, tracks_in, args, out, profiles>>

\* p.collate_...() on the built Profile
Collate(name) ==
    /\ pc = "built"
    /\ ret' = [kind |-> "list", values |-> CallCollate(name, self)]
    /\ err' = "none"
    /\ op' = [name |-> name, calls |-> op.calls, done |-> op.done]
    /\ UNCHANGED <<pc, tracks_in, args, self, out, profiles>>

Reverse(seq) == [i \in DOMAIN seq |-> seq[Len(seq) + 1 - i]]

\* The profile lists handed to a static routine: the built Profile alone,
\* twice, or after a Profile of the same tracks in reverse order.
ProfileChoices(s) == {<<s>>, <<s, s>>, <<ProfileOf(Reverse(s.tracks)), s>>}

\* Profile.collate_displacement_autocorrelation(ps)
CollateDisplacementAutocorrelation(ps) ==
    /\ pc = "built"
    /\ profiles' = ps
    /\ ret' = [kind |-> "dict", values |-> collate_displacement_autocorrelation(ps)]
    /\ err' = "none"
    /\ op' = [name |-> "collate_displacement_autocorrelation", calls |-> op.calls,
              done |-> op.done]
    /\ UNCHANGED <<pc, tracks_in, args, self, out>>

NextCollate ==
    \/ Construct(NoArgs)
    \/ \E name \in CollateMethods : Collate(name)
    \/ \E ps \in ProfileChoices(self) : CollateDisplacementAutocorrelation(ps)

SpecCollate == InitCollate /\ [][NextCollate]_vars

(***************************************************************************)
(* Claims about the collations (checked under SpecCollate)                 *)
(***************************************************************************)
\* A value is defined: neither null nor NaN.
Defined(v) == v # None /\ v # NaN

\* The values of one per-position attribute that claim C12 expects: defined,
\* and on a position that meets the arrest coefficient threshold.
ExpectedReadings(attribute) ==
    MapSeq(SelectSeq(AllPositions(self),
                     LAMBDA p : Defined(p[attribute]) /\ p.meets_arrest_coeff_threshold),
           attribute)

\* C12 as stated: collate_speeds, collate_turns and collate_instantaneous_fmi
\* return exactly the defined (neither null nor NaN) values of the positions
\* that meet the arrest coefficient threshold; collate_speeds is no longer
\* than the number of positions, and shorter when some position is flagged as
\* blebbing.
C12_CollatesDefinedReadings ==
    pc = "built" =>
        /\ op.name = "collate_speeds" =>
              /\ ret.values = ExpectedReadings("speed")
              /\ Len(ret.values) <= Len(AllPositions(self))
              /\ (\E k \in DOMAIN AllPositions(self) :
                     ~AllPositions(self)[k].meets_arrest_coeff_threshold)
                 => Len(ret.values) < Len(AllPositions(self))
        /\ op.name = "collate_turns" => ret.values = ExpectedReadings("turn")
        /\ op.name = "collate_instantaneous_fmi" => ret.values = ExpectedReadings("instant_fmi")

\* The per-track attribute a collation reads.
TrackAttributeOf(name) ==
    CASE name = "collate_meanders" -> "meander"
      [] name = "collate_lengths" -> "length"
      [] name = "collate_displacements" -> "displacement"

\* C13 as stated: collate_meanders, collate_lengths and collate_displacements
\* return, in track order, exactly the per-track values that are defined (not
\* null, not NaN) and nonzero.
C13_CollatesDefinedNonzeroValues ==
    (pc = "built"
     /\ op.name \in {"collate_meanders", "collate_lengths", "collate_displacements"}) =>
        ret.values = SelectSeq(MapSeq(self.tracks, TrackAttributeOf(op.name)),
                               LAMBDA v : Defined(v) /\ v # 0)

\* The occurrences <<profile, track>> in the list handed over whose
\* autocorrelation map has the key dt.
Occurrences(dt) ==
    {q \in UNION {{<<i, j>> : j \in DOMAIN profiles[i].tracks} : i \in DOMAIN profiles} :
        dt \in DOMAIN profiles[q[1]].tracks[q[2]].displacement_autocorrelation}

\* Profile-then-track order.
Precedes(q, r) == q[1] < r[1] \/ (q[1] = r[1] /\ q[2] <= r[2])

\* C16: the result has a key for a delta-t exactly when some track's map has
\* it, and the list under it holds one sample per track occurrence whose map
\* has it, in profile-then-track order.
C16_OneSamplePerTrackOccurrence ==
    (pc = "built" /\ op.name = "collate_displacement_autocorrelation") =>
        LET dac == ret.values
            all == UNION {{<<i, j>> : j \in DOMAIN profiles[i].tracks} : i \in DOMAIN profiles}
            keys == UNION {DOMAIN profiles[q[1]].tracks[q[2]].displacement_autocorrelation
                           : q \in all}
        IN  /\ DOMAIN dac = keys
            /\ \A dt \in keys :
                  /\ Len(dac[dt]) = Cardinality(Occurrences(dt))
                  /\ \A q \in Occurrences(dt) :
                        dac[dt][Cardinality({r \in Occurrences(dt) : Precedes(r, q)})] =
                            profiles[q[1]].tracks[q[2]].displacement_autocorrelation[dt]

\* C16 witness: two Profiles of the same two tracks in opposite orders were
\* handed over; both tracks have delta-t 1 with different values, one has
\* delta-t 2 as well.
C16_Witness ==
    /\ pc = "built" /\ op.name = "collate_displacement_autocorrelation"
    /\ Len(profiles) = 2
    /\ profiles[1].tracks # profiles[2].tracks
    /\ DOMAIN ret.values = {1, 2}
    /\ Len(ret.values[1]) = 4 /\ Len(ret.values[2]) = 2
    /\ ret.values[1][1] # ret.values[1][2]
    /\ ret.values[1][1] = ret.values[1][4]

(***************************************************************************)
(* SpecFrame: every routine of the class called in any order on a built    *)
(* Profile                                                                 *)
(***************************************************************************)
\* Tracks of no, two and three observations with their delta-t series, and a
\* track without a median speed, which construction drops.
FrameTracks ==
    {CollateTrack(<<>>, 2, 3, 2, 5, [dt \in {1} |-> 5], EmptyDict),
     CollateTrack(<<Moving, Blebbing>>, 2, 3, 2, 5, [dt \in {1, 2} |-> 5 + dt], BallisticDict(2, 1)),
     CollateTrack(<<Moving, Still, Moving>>, 0, 3, 0, 5, [dt \in {2} |-> 8], BallisticDict(3, 1)),
     CollateTrack(<<Moving, Moving>>, 2, 3, 2, NaN, EmptyDict, BallisticDict(2, 2))}

FrameArgs == {[NoArgs EXCEPT !.analyse_teleports = at] : at \in BOOLEAN}

\* The profile lists handed to a static routine: the built Profile alone or
\* twice.
FrameProfiles(s) == {<<s>>, <<s, s>>}

InitFrame ==
    /\ pc = "new"
    /\ tracks_in \in SeqUpTo(FrameTracks, MaxTracks)
    /\ args = NoArgs
    /\ self = NoProfile
    /\ err = "none"
    /\ out = <<>>
    /\ op = NoOp
    /\ profiles = <<>>
    /\ ret = NoReturn

\* Profile.calculate_msd(ps, max_dt=max_dt) with the built Profile in ps
CalculateMsdOn(ps, max_dt) ==
    /\ pc = "built"
    /\ profiles' = ps
    /\ LET r == calculate_msd(ps, <<>>, max_dt)
       IN  ret' = r /\ err' = ErrorOf(r)
    /\ op' = [name |-> "calculate_msd", calls |-> op.calls, done |-> op.done]
    /\ UNCHANGED <<pc, tracks_in, args, self, out>>

\* Profile.calculate_msd_vs_max_dt(ps) with the built Profile in ps
CalculateMsdVsMaxDtOn(ps) ==
    /\ pc = "built"
    /\ profiles' = ps
    /\ ret' = calculate_msd_vs_max_dt(ps, Inf)
    /\ err' = "none"
    /\ op' = [name |-> "calculate_msd_vs_max_dt", calls |-> op.calls, done |-> op.done]
    /\ UNCHANGED <<pc, tracks_in, args, self, out>>

DeltaTCollations ==
    {"collate_deltaT_displacements", "collate_deltaT_displacements_X",
     "collate_deltaT_displacements_Y", "collate_deltaT_displacements_Z"}

\* Profile.collate_deltaT_displacements(ps) and its X, Y, Z variants
CollateDeltaTDisplacements(name, ps) ==
    /\ pc = "built"
    /\ profiles' = ps
    /\ ret' = [kind |-> "dict",
               values |-> CASE name = "collate_deltaT_displacements" ->
                                   collate_deltaT_displacements(ps)
                            [] name = "collate_deltaT_displacements_X" ->
                                   collate_deltaT_displacements_X(ps)
                            [] name = "collate_deltaT_displacements_Y" ->
                                   collate_deltaT_displacements_Y(ps)
                            [] name = "collate_deltaT_displacements_Z" ->
                                   collate_deltaT_displacements_Z(ps)]
    /\ err' = "none"
    /\ op' = [name |-> name, calls |-> op.calls, done |-> op.done]
    /\ UNCHANGED <<pc, tracks_in, args, self, out>>

\* p.analyse_cell_entries_imaging_volume() on the built Profile
AnalyseCellEntriesImagingVolume ==
    /\ pc = "built"
    /\ LET r == analyse_cell_entries_imaging_volume(self)
       IN  err' = r.err /\ out' = r.out
    /\ op' = [name |-> "analyse_cell_entries_imaging_volume", calls |-> op.calls,
              done |-> op.done]
    /\ UNCHANGED <<pc, tracks_in, args, self, profiles, ret>>

\* p.check_for_duplicates() on the built Profile
CheckForDuplicates ==
    /\ pc = "built"
    /\ LET r == check_for_duplicates(self)
       IN  err' = r.err /\ out' = r.out
    /\ op' = [name |-> "check_for_duplicates", calls |-> op.calls, done |-> op.done]
    /\ UNCHANGED <<pc, tracks_in, args, self, profiles, ret>>

NextFrame ==
    \/ \E a \in FrameArgs : Construct(a)
    \/ AnalyseCellEntriesImagingVolume
    \/ CheckForDuplicates
    \/ \E name \in CollateMethods : Collate(name)
    \/ AnalyseTeleportations
    \/ \E ps \in FrameProfiles(self), m \in {MaxDtNone, Inf} : CalculateMsdOn(ps, m)
    \/ \E ps \in FrameProfiles(self) : CalculateMsdVsMaxDtOn(ps)
    \/ \E ps \in FrameProfiles(self) : CollateDisplacementAutocorrelation(ps)
    \/ \E ps \in FrameProfiles(self), name \in DeltaTCollations :
          CollateDeltaTDisplacements(name, ps)

SpecFrame == InitFrame /\ [][NextFrame]_vars

(***************************************************************************)
(* Claim about what the calls leave alone (checked under SpecFrame)        *)
(***************************************************************************)
\* The retained track list and the ten summary lists of a Profile.
TracksAndSummaries(s) ==
    <<s.tracks, s.duration, s.length, s.displacement, s.meander, s.medSpd, s.irqSpd,
      s.medTurn, s.irqTurn, s.medRoll, s.irqRoll>>

\* C15: no step changes the track list the caller passed in, and no call on a
\* built Profile (a collate_* method, analyse_teleportations,
\* analyse_cell_entries_imaging_volume, check_for_duplicates, calculate_msd,
\* calculate_msd_vs_max_dt, collate_displacement_autocorrelation, a
\* collate_deltaT_displacements variant) changes its retained track list or
\* any of its ten summary lists.
C15_CallsLeaveTracksAndSummaries ==
    [][/\ tracks_in' = tracks_in
       /\ pc = "built" => TracksAndSummaries(self') = TracksAndSummaries(self)]_vars

\* C15 witness: teleport analysis has run on a Profile of two tracks and
\* recorded an end-type point, a static collation over the Profile has then
\* returned pooled series, and the Profile still holds the two tracks given.
C15_Witness ==
    /\ pc = "built"
    /\ op.calls >= 1
    /\ self.teleport_ends # <<>>
    /\ op.name = "collate_deltaT_displacements_Z"
    /\ DOMAIN ret.values # {}
    /\ Len(self.tracks) = 2
    /\ self.tracks = tracks_in

====
